---- MODULE Spec2Model ----
(***************************************************************************)
(* MangaParkDownloader (src/mangapark-dl/mangapark_dl.py): the browser      *)
(* session lifecycle, the page scraper, the image fetcher with retries and  *)
(* backoff, and download_chapter, which composes them.                      *)
(*                                                                          *)
(* The downloader is single-threaded.  One call of download_chapter or of   *)
(* download_image runs at a time; pc is the position inside the running     *)
(* call, and every external call (browser start, navigation, HTTP GET,      *)
(* file write, quit) has its outcome chosen nondeterministically.           *)
(***************************************************************************)
EXTENDS Integers, Sequences, FiniteSets, TLC

(* ------------------------------ bounds -------------------------------- *)
\* calls made on one downloader instance
MaxCalls == 2
\* img elements on a chapter page (and so extracted URLs and page ordinals)
MaxImages == 2
\* largest retries argument of a direct download_image call
MaxRetries == 3
\* retries arguments below zero go down to -MaxNegRetries
MaxNegRetries == 1
\* body chunks an image response streams
ChunksPerBody == 2
\* direct calls of the session methods made on one downloader instance
MaxSessionCalls == 4

(* ------------------------- program constants -------------------------- *)
\* download_image(self, image_url, save_path, retries=3)
DefaultRetries == 3
\* time.sleep(2 ** attempt)
BackoffBase == 2
\* time.sleep(1) between downloads
DownloadPause == 1
\* the pause between chapters as short as the one between downloads
chapter_pause_as_download_pause == DownloadPause
\* time.sleep(5) before the next chapter
ChapterPause == 5

(* ------------------------------- values ------------------------------- *)
\* self.driver = None
None == 0
\* get_attribute returns None for an attribute the element lacks
NoAttr == "None"
\* URLs that contain the substring 'mangapark'
MarkedUrls == {"m1", "m2"}
\* a URL without the substring
UnmarkedUrls == {"x1"}
Urls == MarkedUrls \cup UnmarkedUrls
\* 'mangapark' in src
HasMarker(u) == u \in MarkedUrls

\* what a step raises: nothing ("none"), selenium's "TimeoutException",
\* any other class derived from "Exception", or "KeyboardInterrupt", which
\* derives from BaseException only
NoException == "none"

\* a handler that lets everything through
except_nothing(exc) == FALSE

\* except Exception: catches every class derived from Exception
except_Exception(exc) == exc \in {"TimeoutException", "Exception"}

\* the download directory (created by __init__) and the chapter directories
RootDir == "."
ChapterNames == {"c1"}
Dirs == {RootDir} \cup ChapterNames

\* the body the image host serves for a URL, as the chunks of iter_content
Body(u) == [j \in 1..ChunksPerBody |-> <<u, j>>]
Prefix(s, n) == [j \in 1..n |-> s[j]]

\* a file: absent, or present with the chunks written to it
AbsentFile == [exists |-> FALSE, data |-> <<>>]
File(d) == [exists |-> TRUE, data |-> d]

(* --------------------------- page file names -------------------------- *)
RECURSIVE Digits(_)
\* the decimal digits of n, most significant first
Digits(n) == IF n < 10 THEN <<n>> ELSE Append(Digits(n \div 10), n % 10)

RECURSIVE ZeroPad(_, _)
\* format spec 03d: pad with zeros on the left up to the width, never truncate
ZeroPad(ds, width) == IF Len(ds) >= width THEN ds ELSE ZeroPad(<<0>> \o ds, width)

\* filename = f"page_{i:03d}.jpg"
page_filename(i) == <<"page_">> \o ZeroPad(Digits(i), 3) \o <<".jpg">>

FileNames == {page_filename(n) : n \in 1..MaxImages}
Paths == Dirs \X FileNames

(* ----------------------------- page scraper --------------------------- *)
\* an img element: attr is the src attribute as the document has it (what a
\* CSS attribute selector sees), src is what get_attribute('src') returns
\* (the resolved URL, None when the element has none), datasrc is
\* get_attribute('data-src'), reader tells if it is inside .reader-main
Img(a, s, d, r) == [attr |-> a, src |-> s, datasrc |-> d, reader |-> r]

Elements ==
    { Img("m1", "m1", NoAttr, FALSE),
      Img("m2", "m2", NoAttr, TRUE),
      Img("x1", "x1", "m1", TRUE),
      Img("x1", "x1", NoAttr, FALSE),
      Img("rel", "m2", NoAttr, TRUE),
      Img(NoAttr, NoAttr, "m1", TRUE),
      Img(NoAttr, NoAttr, "m2", FALSE),
      Img("", "", "m2", FALSE),
      Img(NoAttr, NoAttr, "x1", FALSE),
      Img(NoAttr, NoAttr, NoAttr, TRUE) }

RECURSIVE SeqsUpTo(_, _)
SeqsUpTo(S, n) ==
    IF n = 0 THEN {<<>>}
    ELSE LET shorter == SeqsUpTo(S, n - 1)
         IN  shorter \cup {Append(q, e) : q \in shorter, e \in S}

\* what the browser session does with a chapter URL: nav is driver.get,
\* wait is the WebDriverWait for an img, find and attrs are find_elements
\* and get_attribute ("error" when the call raises), elems the document's
\* img elements in document order
PageOf(n, w, f, a, es) == [nav |-> n, wait |-> w, find |-> f, attrs |-> a, elems |-> es]

Pages ==
    {PageOf("ok", "ok", "ok", "ok", es) : es \in SeqsUpTo(Elements, MaxImages) \ {<<>>}}
    \cup {PageOf("error", "ok", "ok", "ok", <<>>),
          PageOf("ok", "timeout", "ok", "ok", <<>>)}
    \cup {PageOf("ok", "ok", "error", "ok", <<e>>) : e \in Elements}
    \cup {PageOf("ok", "ok", "ok", "error", <<e>>) : e \in Elements}

\* no page: get_chapter_images is not running
NoPage == PageOf("none", "none", "none", "none", <<>>)

\* what the try block of get_chapter_images raises on a page: driver.get
\* fails, the wait for an img times out, find_elements or get_attribute fails
page_exception(page) ==
    IF page.nav # "ok" THEN "Exception"
    ELSE IF page.wait # "ok" THEN "TimeoutException"
    ELSE IF page.find # "ok" \/ page.attrs # "ok" THEN "Exception"
    ELSE NoException

\* a scraper with the first handler only
catches_timeout_only(exc) == exc = "TimeoutException"

\* except TimeoutException: ... except Exception as e: ...
scraper_catches(exc) == exc = "TimeoutException" \/ except_Exception(exc)

\* find_elements(By.CSS_SELECTOR, "img[src*='mangapark']")
MatchesMarkedSrc(e) == e.attr # NoAttr /\ HasMarker(e.attr)
\* find_elements(By.CSS_SELECTOR, ".reader-main img")
MatchesReader(e) == e.reader
\* find_elements(By.CSS_SELECTOR, "img[data-src]")
MatchesDataSrc(e) == e.datasrc # NoAttr

\* the matches of the three selectors merged, in document order
image_elements_merged(es) ==
    LET Matched(e) == MatchesMarkedSrc(e) \/ MatchesReader(e) \/ MatchesDataSrc(e)
    IN  SelectSeq(es, Matched)

\* a fallback that skips the reader container: img[data-src] right after the
\* domain-marked selector
image_elements_without_reader(es) ==
    LET first == SelectSeq(es, MatchesMarkedSrc)
        third == SelectSeq(es, MatchesDataSrc)
    IN  IF first # <<>> THEN first ELSE third

\* the three find_elements calls, a later one only if the list is still empty
image_elements(es) ==
    LET first == SelectSeq(es, MatchesMarkedSrc)
        second == SelectSeq(es, MatchesReader)
        third == SelectSeq(es, MatchesDataSrc)
    IN  IF first # <<>> THEN first
        ELSE IF second # <<>> THEN second
        ELSE third

\* the selectors the find_elements calls are made with, in the order of the
\* calls: the second and the third stand under "if not image_elements"
selectors_queried(es) ==
    IF SelectSeq(es, MatchesMarkedSrc) # <<>> THEN <<"marked_src">>
    ELSE IF SelectSeq(es, MatchesReader) # <<>> THEN <<"marked_src", "reader">>
    ELSE <<"marked_src", "reader", "data_src">>

\* Python truthiness of an attribute value: None and '' are falsy
Truthy(v) == v # NoAttr /\ v # ""

\* data-src preferred to src: get_attribute('data-src') or get_attribute('src')
effective_src_data_first(e) == IF Truthy(e.datasrc) THEN e.datasrc ELSE e.src

\* src = img.get_attribute('src') or img.get_attribute('data-src')
effective_src(e) == IF Truthy(e.src) THEN e.src ELSE e.datasrc

\* if src and 'mangapark' in src
KeepsUrl(e) == Truthy(effective_src(e)) /\ HasMarker(effective_src(e))

\* get_chapter_images: the URL list, [] on TimeoutException or any Exception
get_chapter_images(page) ==
    IF page_exception(page) # NoException
    THEN <<>>
    ELSE LET kept == SelectSeq(image_elements(page.elems), KeepsUrl)
         IN  [k \in 1..Len(kept) |-> effective_src(kept[k])]

(* -------------------------------- state ------------------------------- *)
VARIABLES
    pc,             \* position of the running call, "idle" between calls
    op,             \* the running (or last) call: "none", "chapter", "image", or a
                    \* session method called directly
    calls,          \* calls made so far
    driver,         \* self.driver: None or a session
    sessions,       \* the browser sessions started, see Session
    dirs,           \* the directories that exist
    fs,             \* the file at every path
    fs0,            \* fs when the running call started
    chapter_name,   \* download_chapter: the chapter's directory name
    image_urls,     \* download_chapter: the list get_chapter_images returned
    i,              \* download_chapter: the ordinal of enumerate(image_urls, 1)
    success_count,  \* download_chapter: success_count
    ret,            \* download_chapter: the value of the return statement reached
    result,         \* what the last call returned
    image_url,      \* download_image: image_url
    save_path,      \* download_image: save_path
    retries,        \* download_image: retries
    attempt,        \* download_image: the loop variable of range(retries)
    gets,           \* download_image: requests.get calls made by this call
    backoffs,       \* download_image: the time.sleep calls of this call
    create_outcome, \* download_chapter: how create_driver ended, "none" before
    session_base,   \* download_chapter: Len(sessions) when the call started
    quit_calls,     \* download_chapter: driver.quit() calls made by this call
    quit_runs,      \* download_chapter: quit_driver() calls made by this call
    scraped,        \* download_chapter: get_chapter_images has returned
    chapter_gets,   \* download_chapter: requests.get calls made by this call
    image_results,  \* download_chapter: what each download_image call returned
    img_result,     \* what the last download_image call returned
    quit_outcome,   \* download_chapter: how driver.quit() ended, "none" if not called
    exc,            \* the exception on its way to the caller, NoException if none
    scrape_page,    \* get_chapter_images: the page the browser loaded, NoPage outside
    navigations,    \* download_chapter: driver.get calls made by this call
    create_attempts,\* download_chapter: webdriver.Chrome calls made by this call
    quit_log,       \* the quit_driver() runs: was a session held, how quit() ended
    partials,       \* download_image: failed attempts of this call that opened save_path
    queried,        \* get_chapter_images: the selectors find_elements was called with
    pauses          \* download_chapter: its time.sleep calls, with quit_runs at the time

vars == <<pc, op, calls, driver, sessions, dirs, fs, fs0, chapter_name, image_urls,
          i, success_count, ret, result, image_url, save_path, retries, attempt,
          gets, backoffs, create_outcome, session_base, quit_calls, quit_runs,
          scraped, chapter_gets, image_results, img_result, quit_outcome, exc,
          scrape_page, navigations, create_attempts, quit_log, partials, queried,
          pauses>>

sessionVars == <<driver, sessions, create_outcome, session_base, quit_calls, quit_runs,
                 quit_outcome, create_attempts, quit_log>>
chapterVars == <<chapter_name, image_urls, i, success_count, ret, scraped, scrape_page,
                 navigations, queried>>
imageVars == <<image_url, save_path, retries, attempt, gets, backoffs, partials>>

\* the download directory as an earlier run of the program may have left it:
\* chapter directory name with the pages 1..n of a completed download
EarlierDownload(name, n) ==
    [p \in Paths |-> IF p \in {<<name, page_filename(k)>> : k \in 1..n}
                     THEN File(Body("m2"))
                     ELSE AbsentFile]

\* os.makedirs(self.download_path, exist_ok=True): the directory is created
\* empty or is taken over with what it holds
InitialFiles ==
    {[dirs |-> {RootDir}, fs |-> [p \in Paths |-> AbsentFile]]}
    \cup {[dirs |-> {RootDir, name}, fs |-> EarlierDownload(name, n)] :
              name \in ChapterNames, n \in 1..MaxImages}

\* __init__: self.driver = None, os.makedirs(self.download_path, exist_ok=True)
Init ==
    /\ pc = "idle"
    /\ op = "none"
    /\ calls = 0
    /\ driver = None
    /\ sessions = <<>>
    /\ \E disk \in InitialFiles : dirs = disk.dirs /\ fs = disk.fs
    /\ fs0 = fs
    /\ chapter_name = RootDir
    /\ image_urls = <<>>
    /\ i = 0
    /\ success_count = 0
    /\ ret = FALSE
    /\ result = FALSE
    /\ image_url = "m1"
    /\ save_path = <<RootDir, page_filename(1)>>
    /\ retries = DefaultRetries
    /\ attempt = 0
    /\ gets = 0
    /\ backoffs = <<>>
    /\ create_outcome = "none"
    /\ session_base = 0
    /\ quit_calls = 0
    /\ quit_runs = 0
    /\ scraped = FALSE
    /\ chapter_gets = 0
    /\ image_results = <<>>
    /\ img_result = FALSE
    /\ quit_outcome = "none"
    /\ exc = NoException
    /\ scrape_page = NoPage
    /\ navigations = 0
    /\ create_attempts = 0
    /\ quit_log = <<>>
    /\ partials = 0
    /\ queried = <<>>
    /\ pauses = <<>>

\* the browser sessions that were started and never had quit called
OpenSessions == {s \in 1..Len(sessions) : sessions[s].quits = 0}

(* -------------------------- session lifecycle ------------------------- *)
\* a browser instance webdriver.Chrome started: returned tells if
\* create_driver returned it to its caller, quits counts the quit() calls
Session(r) == [returned |-> r, quits |-> 0]

\* how a create_driver call can end: webdriver.Chrome raises (no browser
\* runs), set_page_load_timeout or implicitly_wait raises (the browser runs
\* already), or everything succeeds
CreateOutcomes == {"chrome_raises", "timeout_raises", "wait_raises", "ok"}

\* create_driver: started tells if a browser instance was started, raised if
\* the call re-raises instead of returning the session
create_driver(outcome) ==
    [started |-> outcome # "chrome_raises", raised |-> outcome # "ok"]

QuitOutcomes == {"ok", "raises"}

\* quit_driver with the field cleared after quit() inside the try block, so
\* that a quit() that raises leaves the session in self.driver
quit_driver_clears_in_try(outcome) ==
    /\ quit_runs' = quit_runs + 1
    /\ quit_log' = Append(quit_log, [held |-> driver # None, outcome |-> outcome])
    /\ IF driver # None
       THEN /\ sessions' = [sessions EXCEPT ![driver].quits = @ + 1]
            /\ quit_calls' = quit_calls + 1
            /\ quit_outcome' = outcome
            /\ exc' = IF outcome = "raises" /\ ~except_Exception("Exception")
                      THEN "Exception"
                      ELSE exc
            /\ driver' = IF outcome = "raises" THEN driver ELSE None
       ELSE /\ outcome = "ok"
            /\ UNCHANGED <<sessions, quit_calls, quit_outcome, exc, driver>>

\* quit_driver: only a session held in self.driver is quit; an exception of
\* quit() is caught by except Exception, and the field is cleared in the
\* finally clause whether quit raised or not
quit_driver(outcome) ==
    /\ quit_runs' = quit_runs + 1
    /\ quit_log' = Append(quit_log, [held |-> driver # None, outcome |-> outcome])
    /\ IF driver # None
       THEN /\ sessions' = [sessions EXCEPT ![driver].quits = @ + 1]
            /\ quit_calls' = quit_calls + 1
            /\ quit_outcome' = outcome
            /\ exc' = IF outcome = "raises" /\ ~except_Exception("Exception")
                      THEN "Exception"
                      ELSE exc
            /\ driver' = None
       ELSE /\ outcome = "ok"
            /\ UNCHANGED <<sessions, quit_calls, quit_outcome, exc, driver>>

(* ----------------------------- image fetcher -------------------------- *)
\* how one attempt can end: requests.get raises, raise_for_status raises,
\* open raises, iter_content or write raises after some chunks were written,
\* or the whole body is written
AttemptOutcomes ==
    {[kind |-> k, written |-> 0] : k \in {"request_error", "bad_status", "open_error", "ok"}}
    \cup {[kind |-> "stream_error", written |-> n] : n \in 0..(ChunksPerBody - 1)}

\* open(save_path, 'wb') raises when the directory does not exist
CanOpen(path) == path[1] \in dirs

PossibleOutcome(o, path) ==
    CanOpen(path) \/ o.kind \in {"request_error", "bad_status", "open_error"}

\* the file opened for appending: open(save_path, 'ab')
file_after_append(old, url, o) ==
    CASE o.kind = "ok" -> File(old.data \o Body(url))
      [] o.kind = "stream_error" -> File(old.data \o Prefix(Body(url), o.written))
      [] OTHER -> old

\* the file at save_path after one attempt: open(..., 'wb') truncates, every
\* chunk received is written, and nothing removes the file on an error
file_after(old, url, o) ==
    CASE o.kind = "ok" -> File(Body(url))
      [] o.kind = "stream_error" -> File(Prefix(Body(url), o.written))
      [] OTHER -> old

\* the file system with file f at path p, whether p held a file or not
WriteFile(files, p, f) ==
    [q \in DOMAIN files \cup {p} |-> IF q = p THEN f ELSE files[q]]

\* the file at p, absent when nothing was ever written there
FileAt(files, p) == IF p \in DOMAIN files THEN files[p] ELSE AbsentFile

\* a loop whose body runs before the bound is tested: at least one attempt
range_at_least_once(n) == 0..(IF n < 1 THEN 0 ELSE n - 1)

\* a loop that runs once more than asked: range(retries + 1)
range_one_more(n) == 0..n

\* for attempt in range(retries)
range(n) == 0..(n - 1)

\* if attempt < retries - 1
sleeps_after_failure(k, n) == k < n - 1

RECURSIVE Pow(_, _)
Pow(b, e) == IF e = 0 THEN 1 ELSE b * Pow(b, e - 1)

\* the delay indexed by the coming attempt: time.sleep(2 ** (attempt + 1))
backoff_delay_next_index(k) == Pow(BackoffBase, k + 1)

\* time.sleep(2 ** attempt)
backoff_delay(k) == Pow(BackoffBase, k)

\* the return of download_image to its caller: download_chapter counts a
\* True, a direct call hands the value to the caller
ReturnFromImage(value) ==
    /\ img_result' = value
    /\ IF op = "image"
       THEN /\ pc' = "idle"
            /\ result' = value
            /\ UNCHANGED <<success_count, image_results>>
       ELSE /\ pc' = "pause"
            /\ success_count' = IF value THEN success_count + 1 ELSE success_count
            /\ image_results' = Append(image_results, value)
            /\ UNCHANGED result

\* one iteration of the retry loop: the GET, the write to save_path and, on
\* an exception, which except Exception catches, the backoff before the next
\* iteration
FetchAttempt(o) ==
    /\ pc = "attempt"
    /\ attempt \in range(retries)
    /\ PossibleOutcome(o, save_path)
    /\ gets' = gets + 1
    /\ chapter_gets' = IF op = "chapter" THEN chapter_gets + 1 ELSE chapter_gets
    /\ fs' = WriteFile(fs, save_path, file_after(FileAt(fs, save_path), image_url, o))
    /\ partials' = IF o.kind = "stream_error" THEN partials + 1 ELSE partials
    /\ IF o.kind = "ok"
       THEN /\ ReturnFromImage(TRUE)
            /\ UNCHANGED <<attempt, backoffs, exc>>
       ELSE IF except_Exception("Exception")
       THEN /\ backoffs' = IF sleeps_after_failure(attempt, retries)
                           THEN Append(backoffs, [after |-> attempt,
                                                  delay |-> backoff_delay(attempt)])
                           ELSE backoffs
            /\ attempt' = attempt + 1
            /\ UNCHANGED <<pc, result, success_count, image_results, img_result, exc>>
       ELSE /\ exc' = "Exception"
            /\ pc' = IF op = "chapter" THEN "except" ELSE "idle"
            /\ UNCHANGED <<attempt, backoffs, result, success_count, image_results,
                           img_result>>
    /\ UNCHANGED pauses
    /\ UNCHANGED <<op, calls, dirs, fs0, chapter_name, image_urls, i, ret, scraped,
                   scrape_page, navigations, queried, image_url, save_path, retries,
                   sessionVars>>

\* the loop is over without a return: return False
FetchExhausted ==
    /\ pc = "attempt"
    /\ attempt \notin range(retries)
    /\ ReturnFromImage(FALSE)
    /\ UNCHANGED pauses
    /\ UNCHANGED <<op, calls, dirs, fs, fs0, chapter_name, image_urls, i, ret, scraped,
                   scrape_page, navigations, queried, exc, imageVars, chapter_gets,
                   sessionVars>>

\* download_image's frame once its caller has gone on
NoImageCall ==
    /\ image_url' = "m1"
    /\ save_path' = <<RootDir, page_filename(1)>>
    /\ retries' = DefaultRetries
    /\ attempt' = 0
    /\ gets' = 0
    /\ backoffs' = <<>>
    /\ partials' = 0

\* a direct call download_image(image_url, save_path, retries)
CallImage(u, path, n) ==
    /\ pc = "idle"
    /\ calls < MaxCalls
    /\ pc' = "attempt"
    /\ op' = "image"
    /\ calls' = calls + 1
    /\ fs0' = fs
    /\ image_url' = u
    /\ save_path' = path
    /\ retries' = n
    /\ attempt' = 0
    /\ gets' = 0
    /\ backoffs' = <<>>
    /\ partials' = 0
    /\ result' = FALSE
    /\ img_result' = FALSE
    /\ exc' = NoException
    /\ UNCHANGED pauses
    /\ UNCHANGED <<dirs, fs, chapterVars, chapter_gets, image_results, sessionVars>>

(* -------------------------- chapter orchestrator ---------------------- *)
\* success only when no page is missing: return success_count == len(image_urls)
chapter_result_all_pages(n) == n = Len(image_urls)

\* return success_count > 0
chapter_result(n) == n > 0

\* an empty chapter reported as a success
no_images_result_success == TRUE

\* if not image_urls: return False
no_images_result == FALSE

\* ordinals counted from zero: enumerate(image_urls) without the start
page_path_zero_based(name, n) == <<name, page_filename(n - 1)>>

\* save_path = os.path.join(chapter_dir, filename)
page_path(name, n) == <<name, page_filename(n)>>

\* self.download_image(image_url, save_path) for position n of the list
StartImage(urls, n) ==
    /\ i' = n
    /\ image_url' = urls[n]
    /\ save_path' = page_path(chapter_name, n)
    /\ retries' = DefaultRetries
    /\ attempt' = 0
    /\ gets' = 0
    /\ backoffs' = <<>>
    /\ partials' = 0
    /\ pc' = "attempt"

\* the except clause reporting a success
except_result_success == TRUE

\* except Exception as e: ... return False
except_result == FALSE

\* the try block with the directory made before the session is created
step_directory_first(p) ==
    CASE p = "call" -> "mkdir"
      [] p = "mkdir" -> "create"
      [] OTHER -> "scrape"

\* the try block without the create_driver call
step_without_session(p) ==
    CASE p = "call" -> "mkdir"
      [] OTHER -> "scrape"

\* a try block that goes back to create_driver after os.makedirs
step_back_to_create(p) ==
    CASE p = "call" -> "create"
      [] p = "create" -> "mkdir"
      [] OTHER -> "create"

\* the order of the steps of the try block: self.create_driver(), then
\* os.makedirs(chapter_dir), then self.get_chapter_images(chapter_url)
step_after(p) ==
    CASE p = "call" -> "create"
      [] p = "create" -> "mkdir"
      [] OTHER -> "scrape"

\* a call download_chapter(chapter_url, chapter_name)
CallChapter(name) ==
    /\ pc = "idle"
    /\ pauses' = <<>>
    /\ calls < MaxCalls
    /\ pc' = step_after("call")
    /\ op' = "chapter"
    /\ calls' = calls + 1
    /\ fs0' = fs
    /\ chapter_name' = name
    /\ image_urls' = <<>>
    /\ i' = 0
    /\ success_count' = 0
    /\ ret' = FALSE
    /\ scraped' = FALSE
    /\ scrape_page' = NoPage
    /\ queried' = <<>>
    /\ navigations' = 0
    /\ create_outcome' = "none"
    /\ create_attempts' = 0
    /\ quit_log' = <<>>
    /\ session_base' = Len(sessions)
    /\ quit_calls' = 0
    /\ quit_runs' = 0
    /\ quit_outcome' = "none"
    /\ chapter_gets' = 0
    /\ image_results' = <<>>
    /\ result' = FALSE
    /\ img_result' = FALSE
    /\ exc' = NoException
    /\ UNCHANGED <<driver, sessions, dirs, fs, imageVars>>

\* self.driver = self.create_driver(): the assignment happens only when
\* create_driver returns; when it raises, the exception goes to the except
\* clause of download_chapter
CreateDriver(outcome) ==
    /\ pc = "create"
    /\ create_outcome' = outcome
    /\ create_attempts' = create_attempts + 1
    /\ sessions' = IF create_driver(outcome).started
                    THEN Append(sessions, Session(~create_driver(outcome).raised))
                    ELSE sessions
    /\ IF create_driver(outcome).raised
       THEN /\ pc' = "except"
            /\ exc' = "Exception"
            /\ UNCHANGED driver
       ELSE /\ pc' = step_after("create")
            /\ driver' = Len(sessions')
            /\ UNCHANGED exc
    /\ UNCHANGED pauses
    /\ UNCHANGED <<op, calls, dirs, fs, fs0, chapterVars, result, img_result, imageVars,
                   session_base, quit_calls, quit_runs, quit_outcome, quit_log,
                   chapter_gets, image_results>>

\* os.makedirs(chapter_dir, exist_ok=True); an OSError goes to the except clause
MakeChapterDir(ok) ==
    /\ pc = "mkdir"
    /\ IF ok
       THEN /\ dirs' = dirs \cup {chapter_name}
            /\ pc' = step_after("mkdir")
            /\ UNCHANGED exc
       ELSE /\ chapter_name \notin dirs
            /\ pc' = "except"
            /\ exc' = "Exception"
            /\ UNCHANGED dirs
    /\ UNCHANGED pauses
    /\ UNCHANGED <<op, calls, fs, fs0, chapterVars, result, img_result, imageVars,
                   sessionVars, chapter_gets, image_results>>

\* image_urls = self.get_chapter_images(chapter_url): the browser loads a
\* page; an exception of the try block that a handler catches returns [],
\* one that no handler catches goes on to download_chapter.  Without a
\* session self.driver.get is an AttributeError
Scrape(page) ==
    /\ pc = "scrape"
    /\ scrape_page' = page
    /\ queried' = IF driver = None \/ page_exception(page) # NoException
                  THEN <<>>
                  ELSE selectors_queried(page.elems)
    /\ navigations' = IF driver = None THEN navigations ELSE navigations + 1
    /\ LET e == IF driver = None THEN "Exception" ELSE page_exception(page)
       IN  IF e # NoException /\ ~scraper_catches(e)
           THEN /\ pc' = "except"
                /\ exc' = e
                /\ UNCHANGED <<image_urls, scraped>>
           ELSE /\ pc' = "check_images"
                /\ image_urls' = IF e # NoException THEN <<>> ELSE get_chapter_images(page)
                /\ scraped' = TRUE
                /\ UNCHANGED exc
    /\ UNCHANGED pauses
    /\ UNCHANGED <<op, calls, dirs, fs, fs0, chapter_name, i, success_count, ret, result,
                   img_result, imageVars, sessionVars, chapter_gets, image_results>>

\* if not image_urls: return False; otherwise the loop starts with the first
\* URL of the list
CheckImages ==
    /\ pc = "check_images"
    /\ scrape_page' = NoPage
    /\ queried' = <<>>
    /\ IF image_urls = <<>>
       THEN /\ pc' = "finally"
            /\ ret' = no_images_result
            /\ UNCHANGED <<i, imageVars>>
       ELSE /\ StartImage(image_urls, 1)
            /\ UNCHANGED ret
    /\ UNCHANGED pauses
    /\ UNCHANGED <<op, calls, dirs, fs, fs0, chapter_name, image_urls, success_count,
                   scraped, navigations, result, img_result, exc, sessionVars,
                   chapter_gets, image_results>>

\* time.sleep(1) after a download_image call, then the next URL of the list
\* or, after the last one, return success_count > 0
InterDownloadPause ==
    /\ pc = "pause"
    /\ pauses' = Append(pauses, [delay |-> DownloadPause, quits |-> quit_runs])
    /\ IF i < Len(image_urls)
       THEN /\ StartImage(image_urls, i + 1)
            /\ UNCHANGED ret
       ELSE /\ pc' = "finally"
            /\ ret' = chapter_result(success_count)
            /\ NoImageCall
            /\ UNCHANGED i
    /\ UNCHANGED <<op, calls, dirs, fs, fs0, chapter_name, image_urls, success_count,
                   scraped, scrape_page, navigations, queried, result, img_result, exc,
                   sessionVars, chapter_gets, image_results>>

\* KeyboardInterrupt delivered while the try block of download_chapter runs.
\* Inside create_driver it arrives before webdriver.Chrome has started the
\* browser or after it (started), in both cases before the assignment to
\* self.driver
Interrupt(started) ==
    /\ op = "chapter"
    /\ pc \in {"create", "mkdir", "scrape", "attempt", "pause"}
    /\ started => pc = "create"
    /\ pc' = "except"
    /\ exc' = "KeyboardInterrupt"
    /\ sessions' = IF started THEN Append(sessions, Session(FALSE)) ELSE sessions
    /\ create_outcome' = IF pc = "create" THEN "interrupted" ELSE create_outcome
    /\ create_attempts' = IF started THEN create_attempts + 1 ELSE create_attempts
    /\ UNCHANGED pauses
    /\ UNCHANGED <<op, calls, dirs, fs, fs0, chapterVars, result, img_result, imageVars,
                   driver, session_base, quit_calls, quit_runs, quit_outcome, quit_log,
                   chapter_gets, image_results>>

\* except Exception as e: log and return False.  An exception of another
\* class passes the clause and stays on its way to the caller
ExceptClause ==
    /\ pc = "except"
    /\ pc' = "finally"
    /\ IF except_Exception(exc)
       THEN /\ exc' = NoException
            /\ ret' = except_result
       ELSE UNCHANGED <<exc, ret>>
    /\ scrape_page' = NoPage
    /\ queried' = <<>>
    /\ NoImageCall
    /\ UNCHANGED pauses
    /\ UNCHANGED <<op, calls, dirs, fs, fs0, chapter_name, image_urls, i, success_count,
                   scraped, navigations, result, img_result, sessionVars, chapter_gets,
                   image_results>>

\* finally: self.quit_driver()
QuitDriver(outcome) ==
    /\ pc = "finally"
    /\ quit_driver(outcome)
    /\ pc' = "chapter_sleep"
    /\ UNCHANGED pauses
    /\ UNCHANGED <<op, calls, dirs, fs, fs0, chapterVars, result, img_result, imageVars,
                   create_outcome, create_attempts, session_base, chapter_gets,
                   image_results>>

\* finally: time.sleep(5); then the value of the return statement is
\* returned, or the exception no clause handled reaches the caller
InterChapterPause ==
    /\ pc = "chapter_sleep"
    /\ pauses' = Append(pauses, [delay |-> ChapterPause, quits |-> quit_runs])
    /\ pc' = "idle"
    /\ result' = IF exc = NoException THEN ret ELSE result
    /\ UNCHANGED <<op, calls, dirs, fs, fs0, chapterVars, img_result, imageVars,
                   sessionVars, chapter_gets, image_results, exc>>

(* ------------------- direct calls of the session methods ------------- *)
\* self.downloader.driver = mock_driver: a caller puts a session of its own
\* into the field
SetDriver ==
    /\ pc = "idle"
    /\ calls < MaxSessionCalls
    /\ calls' = calls + 1
    /\ op' = "set_driver"
    /\ sessions' = Append(sessions, Session(TRUE))
    /\ driver' = Len(sessions')
    /\ exc' = NoException
    /\ UNCHANGED pauses
    /\ UNCHANGED <<pc, dirs, fs, fs0, chapterVars, result, img_result, imageVars,
                   create_outcome, create_attempts, session_base, quit_calls, quit_runs,
                   quit_outcome, quit_log, chapter_gets, image_results>>

\* a create_driver that stores the session it returns: self.driver = driver
create_driver_storing_session(outcome) ==
    /\ pc = "idle"
    /\ calls < MaxSessionCalls
    /\ calls' = calls + 1
    /\ op' = "create_driver"
    /\ create_outcome' = outcome
    /\ create_attempts' = create_attempts + 1
    /\ sessions' = IF create_driver(outcome).started
                    THEN Append(sessions, Session(~create_driver(outcome).raised))
                    ELSE sessions
    /\ driver' = IF create_driver(outcome).raised THEN driver ELSE Len(sessions')
    /\ exc' = IF create_driver(outcome).raised THEN "Exception" ELSE NoException
    /\ UNCHANGED pauses
    /\ UNCHANGED <<pc, dirs, fs, fs0, chapterVars, result, img_result, imageVars,
                   session_base, quit_calls, quit_runs, quit_outcome, quit_log,
                   chapter_gets, image_results>>

\* driver = downloader.create_driver(): the session goes to the caller, or
\* the exception create_driver re-raises does
CallCreateDriver(outcome) ==
    /\ pc = "idle"
    /\ calls < MaxSessionCalls
    /\ calls' = calls + 1
    /\ op' = "create_driver"
    /\ create_outcome' = outcome
    /\ create_attempts' = create_attempts + 1
    /\ sessions' = IF create_driver(outcome).started
                    THEN Append(sessions, Session(~create_driver(outcome).raised))
                    ELSE sessions
    /\ exc' = IF create_driver(outcome).raised THEN "Exception" ELSE NoException
    /\ UNCHANGED pauses
    /\ UNCHANGED <<pc, dirs, fs, fs0, chapterVars, result, img_result, imageVars, driver,
                   session_base, quit_calls, quit_runs, quit_outcome, quit_log,
                   chapter_gets, image_results>>

\* downloader.quit_driver()
CallQuitDriver(outcome) ==
    /\ pc = "idle"
    /\ calls < MaxSessionCalls
    /\ calls' = calls + 1
    /\ op' = "quit_driver"
    /\ quit_driver(outcome)
    /\ UNCHANGED pauses
    /\ UNCHANGED <<pc, dirs, fs, fs0, chapterVars, result, img_result, imageVars,
                   create_outcome, create_attempts, session_base, chapter_gets,
                   image_results>>

(* ---------------------------- specification --------------------------- *)
\* the retries arguments of direct download_image calls
RetryArgs == (0 - MaxNegRetries)..MaxRetries

Next ==
    \/ \E name \in ChapterNames : CallChapter(name)
    \/ \E outcome \in CreateOutcomes : CreateDriver(outcome)
    \/ \E ok \in BOOLEAN : MakeChapterDir(ok)
    \/ \E page \in Pages : Scrape(page)
    \/ CheckImages
    \/ \E o \in AttemptOutcomes : FetchAttempt(o)
    \/ FetchExhausted
    \/ InterDownloadPause
    \/ \E started \in BOOLEAN : Interrupt(started)
    \/ ExceptClause
    \/ \E outcome \in QuitOutcomes : QuitDriver(outcome)
    \/ InterChapterPause

\* download_chapter called any number of times on one downloader
Spec == Init /\ [][Next]_vars

NextOneCall ==
    \/ \E name \in ChapterNames : calls = 0 /\ CallChapter(name)
    \/ \E outcome \in CreateOutcomes : CreateDriver(outcome)
    \/ \E ok \in BOOLEAN : MakeChapterDir(ok)
    \/ \E page \in Pages : Scrape(page)
    \/ CheckImages
    \/ \E o \in AttemptOutcomes : FetchAttempt(o)
    \/ FetchExhausted
    \/ InterDownloadPause
    \/ \E started \in BOOLEAN : Interrupt(started)
    \/ ExceptClause
    \/ \E outcome \in QuitOutcomes : QuitDriver(outcome)
    \/ InterChapterPause

\* one download_chapter call on a new downloader, the way main() runs it
SpecOneCall == Init /\ [][NextOneCall]_vars

\* a new downloader whose download directory was created empty
InitNewDirectory == Init /\ dirs = {RootDir}

\* one download_chapter call into a new download directory, in which every
\* external call (browser start, navigation, wait, GET, quit, sleep) returns
\* or raises, so that the step that waits for it is eventually taken
SpecOneCallFair == InitNewDirectory /\ [][NextOneCall]_vars /\ WF_vars(NextOneCall)

NextImage ==
    \/ \E u \in Urls, path \in Paths, n \in RetryArgs : calls = 0 /\ CallImage(u, path, n)
    \/ \E o \in AttemptOutcomes : FetchAttempt(o)
    \/ FetchExhausted

\* one direct download_image call on a new downloader, as the test suite makes
SpecImage == Init /\ [][NextImage]_vars

NextSession ==
    \/ SetDriver
    \/ \E outcome \in CreateOutcomes : CallCreateDriver(outcome)
    \/ \E outcome \in QuitOutcomes : CallQuitDriver(outcome)

\* the session methods called directly on a new downloader, as the test
\* suite and the example script call them
SpecSession == Init /\ [][NextSession]_vars

(* ======================================================================= *)
(*                              properties                                 *)
(* ======================================================================= *)
\* download_chapter has returned to its caller
ChapterReturned == pc = "idle" /\ op = "chapter" /\ exc = NoException

\* download_image has returned, to a direct caller or to download_chapter
ImageReturned == (op = "image" /\ pc = "idle") \/ (op = "chapter" /\ pc = "pause")

\* the browser sessions started by the running (or last) download_chapter call
StartedThisCall == (session_base + 1)..Len(sessions)

\* page_001.jpg, page_002.jpg, ... written out for ordinals below 1000
PageName(n) == <<"page_", n \div 100, (n \div 10) % 10, n % 10, ".jpg">>

\* the files that exist in directory d
FilesIn(files, d) == {p \in DOMAIN files : p[1] = d /\ files[p].exists}

\* the download_image calls of this download_chapter call that returned True
TrueReturns == Cardinality({n \in 1..Len(image_results) : image_results[n]})

Max0(n) == IF n > 0 THEN n ELSE 0

(* ------------------------------- C1 ----------------------------------- *)
\* C1: when download_chapter returns, whichever step failed, the number of
\* driver.quit calls of the call equals the number of browser sessions the
\* call started, quit_driver ran exactly once, and self.driver is None.
\* The code breaks it: a session started by create_driver that then raises
\* is never assigned to self.driver and is never quit.
C1_TeardownEqualsAcquisition ==
    ChapterReturned =>
        /\ quit_calls = Cardinality(StartedThisCall)
        /\ quit_runs = 1
        /\ driver = None

(* ------------------------------- C2 ----------------------------------- *)
\* C2: over any sequence of download_chapter calls on one downloader at most
\* one browser session is open at any moment, and when a call has returned
\* every session create_driver returned has had quit called exactly once.
\* The code breaks the first half: a browser leaked by a failed create_driver
\* (C3) is still open when the next call opens its own.
C2_AtMostOneOpenSession ==
    /\ Cardinality(OpenSessions) <= 1
    /\ ChapterReturned =>
           \A s \in 1..Len(sessions) : sessions[s].returned => sessions[s].quits = 1

(* ------------------------------- C3 ----------------------------------- *)
\* C3: when create_driver fails after webdriver.Chrome has returned,
\* download_chapter returns False and the browser instance it started has
\* been quit.  The code returns False but never quits that instance.
C3_PartialSessionTornDown ==
    (ChapterReturned /\ create_outcome \in {"timeout_raises", "wait_raises"}) =>
        /\ result = FALSE
        /\ \A s \in StartedThisCall : sessions[s].quits >= 1

(* ------------------------------- C4 ----------------------------------- *)
\* C4: whenever download_image returns False no file exists at save_path,
\* stated for a save_path that held no file before the call, so that only
\* data written by a failed attempt can be there.  The code breaks it: an
\* attempt that fails while streaming leaves the file it opened, and nothing
\* removes it.
C4_NoFileAfterFailure ==
    (ImageReturned /\ ~img_result /\ ~FileAt(fs0, save_path).exists) =>
        ~FileAt(fs, save_path).exists

(* ------------------------------- C5 ----------------------------------- *)
\* C5 as stated: the number of GET attempts of a download_image call never
\* exceeds retries, equals retries when every attempt failed (False), and the
\* successful attempt is the last one (True).  A negative retries refutes it:
\* no attempt is made, and zero exceeds retries.
C5_AttemptsBoundedByRetries ==
    /\ op # "none" => gets <= retries
    /\ (ImageReturned /\ ~img_result) => gets = retries
    /\ (ImageReturned /\ img_result) => (gets >= 1 /\ gets = attempt + 1)

\* C5 amended: the number of GET attempts never exceeds max(retries, 0); it
\* equals max(retries, 0) when the call returns False; when it returns True
\* the successful attempt is the last GET, every earlier one having failed.
C5_AttemptsBoundedByNonNegativeRetries ==
    /\ op # "none" => gets <= Max0(retries)
    /\ (ImageReturned /\ ~img_result) => gets = Max0(retries)
    /\ (ImageReturned /\ img_result) => (gets >= 1 /\ gets = attempt + 1)

\* C5 witness: a call with retries = 3 that failed once and then succeeded,
\* so that the third attempt was never made
C5_SucceededOnSecondAttempt ==
    ImageReturned /\ op = "image" /\ img_result /\ retries = 3 /\ gets = 2

(* ------------------------------- C6 ----------------------------------- *)
\* C6 as stated: the delay before attempt k (0-indexed, k >= 1) is 2^k, and
\* there are as many delays as gaps between consecutive attempts.  The code
\* sleeps 2^attempt after failed attempt number attempt, which is 2^(k-1)
\* before attempt k.
C6_DelayBeforeAttemptIsTwoToK ==
    /\ \A j \in 1..Len(backoffs) :
           backoffs[j].after = j - 1 /\ backoffs[j].delay = Pow(2, j)
    /\ ImageReturned => Len(backoffs) = Max0(gets - 1)

\* C6 amended: the delay before attempt k (0-indexed, k >= 1) is 2^(k-1),
\* that is 2^j after failed attempt j; a delay is always followed by another
\* attempt, so when the call returns there is exactly one delay between any
\* two consecutive attempts, none after the final or the successful one.
C6_DelayBeforeAttemptIsTwoToKMinusOne ==
    /\ \A j \in 1..Len(backoffs) :
           backoffs[j].after = j - 1 /\ backoffs[j].delay = Pow(2, j - 1)
    /\ ImageReturned => Len(backoffs) = Max0(gets - 1)
    /\ (pc = "attempt" /\ Len(backoffs) >= gets /\ gets > 0) =>
           (Len(backoffs) = gets /\ attempt < retries)

\* C6 witness: a call that made three attempts, all failed, with the two
\* delays between them
C6_TwoDelaysThreeAttempts ==
    ImageReturned /\ ~img_result /\ gets = 3 /\ Len(backoffs) = 2

(* ------------------------------- C7 ----------------------------------- *)
\* every image of the list was fetched by one GET that succeeded
NoFetchFailed ==
    /\ Len(image_results) = Len(image_urls)
    /\ TrueReturns = Len(image_urls)
    /\ chapter_gets = Len(image_urls)

\* the paths page_001.jpg .. page_N.jpg of the chapter directory
PagePaths(n) == {<<chapter_name, PageName(k)>> : k \in 1..n}

\* page_k holds the body of the k-th extracted URL, for every k up to N
PagesHoldUrls ==
    \A k \in 1..Len(image_urls) :
        FileAt(fs, <<chapter_name, PageName(k)>>) = File(Body(image_urls[k]))

\* C7 as stated: a chapter with N >= 1 URLs and no failed fetch returns True
\* and its directory contains exactly the files page_001.jpg .. page_N.jpg,
\* page_k holding the k-th URL's content.  A directory that already held a
\* page with a higher ordinal refutes "exactly".
C7_ExactlyNPageFiles ==
    (ChapterReturned /\ scraped /\ image_urls # <<>> /\ NoFetchFailed) =>
        /\ result = TRUE
        /\ FilesIn(fs, chapter_name) = PagePaths(Len(image_urls))
        /\ PagesHoldUrls

\* C7 amended: such a chapter returns True, page_001.jpg .. page_N.jpg exist
\* with page_k holding the k-th URL's content, and every other file is as it
\* was before the call.
C7_NPageFilesWrittenOthersKept ==
    (ChapterReturned /\ scraped /\ image_urls # <<>> /\ NoFetchFailed) =>
        /\ result = TRUE
        /\ PagesHoldUrls
        /\ \A p \in (DOMAIN fs \cup DOMAIN fs0) \ PagePaths(Len(image_urls)) :
               FileAt(fs, p) = FileAt(fs0, p)

\* C7 witness: a returned chapter of two different URLs, both fetched at the
\* first attempt
C7_TwoPagesNoFailure ==
    /\ ChapterReturned /\ scraped /\ NoFetchFailed
    /\ Len(image_urls) = 2 /\ image_urls[1] # image_urls[2]

(* ------------------------------- C8 ----------------------------------- *)
\* C8: a chapter of N URLs of which k (0 < k < N) fail permanently returns
\* True and its directory contains exactly the N - k page files of the
\* images whose fetch succeeded, stated for a chapter directory that held no
\* file before the call.  The code breaks it through C4: a page whose last
\* attempt failed while streaming leaves its partial file behind.
C8_OnlySucceededPagesOnDisk ==
    ( /\ ChapterReturned /\ scraped
      /\ FilesIn(fs0, chapter_name) = {}
      /\ Len(image_results) = Len(image_urls)
      /\ TrueReturns > 0 /\ TrueReturns < Len(image_urls) ) =>
        /\ result = TRUE
        /\ FilesIn(fs, chapter_name) =
               {<<chapter_name, PageName(k)>> : k \in {n \in 1..Len(image_urls) : image_results[n]}}

(* ------------------------------- C9 ----------------------------------- *)
\* C9: when get_chapter_images returns an empty list, download_chapter
\* returns False, makes no GET, leaves every file as it was (creates no page
\* file) and has released the session: quit_driver ran, the session of the
\* call was quit once, self.driver is None.
C9_EmptyChapterFailsCleanly ==
    (ChapterReturned /\ scraped /\ image_urls = <<>>) =>
        /\ result = FALSE
        /\ chapter_gets = 0
        /\ image_results = <<>>
        /\ \A p \in DOMAIN fs \cup DOMAIN fs0 : FileAt(fs, p) = FileAt(fs0, p)
        /\ quit_runs = 1
        /\ driver = None
        /\ \A s \in StartedThisCall : sessions[s].quits = 1

\* C9 witness: a returned call whose scrape found nothing
C9_EmptyChapterReturned ==
    ChapterReturned /\ scraped /\ image_urls = <<>> /\ create_outcome = "ok"

(* ------------------------------- C10 ---------------------------------- *)
\* C10: when the session was created and the scrape returned a non-empty
\* list, download_chapter returns True iff at least one download_image call
\* returned True; success_count is the number of those calls and never
\* exceeds the number of extracted URLs.
C10_SuccessIffSomeImage ==
    /\ (scraped /\ image_urls # <<>>) =>
           (success_count = TrueReturns /\ success_count <= Len(image_urls))
    /\ (ChapterReturned /\ scraped /\ image_urls # <<>>) =>
           /\ Len(image_results) = Len(image_urls)
           /\ result = (TrueReturns >= 1)

\* C10 witness: a returned chapter of two URLs of which exactly one was
\* downloaded, reported as a success
C10_PartialSuccessReturned ==
    /\ ChapterReturned /\ scraped /\ Len(image_urls) = 2
    /\ TrueReturns = 1 /\ result = TRUE

(* ------------------------------- C11 ---------------------------------- *)
\* the browser failed on the page get_chapter_images loaded: navigation
\* raised, the wait for an img timed out, or find_elements or get_attribute
\* raised
PageFailed(page) ==
    \/ page.nav = "error"
    \/ page.wait = "timeout"
    \/ page.find = "error"
    \/ page.attrs = "error"

\* C11: get_chapter_images never raises to its caller: on a page whose load
\* times out waiting for an img, and on a page where navigation, the wait or
\* the element or attribute extraction raises, it returns the empty list.
C11_ScraperReturnsEmptyOnFailure ==
    (scrape_page # NoPage /\ PageFailed(scrape_page)) =>
        /\ pc = "check_images"
        /\ scraped
        /\ image_urls = <<>>
        /\ exc = NoException

\* C11 witness: get_chapter_images has returned from a page whose
\* get_attribute call raised
C11_AttributeErrorScraped ==
    pc = "check_images" /\ scrape_page.attrs = "error" /\ driver # None

(* ------------------------------- C12 ---------------------------------- *)
\* get_chapter_images has returned from a page the browser loaded without
\* an error
ScrapedLoadedPage ==
    pc = "check_images" /\ driver # None /\ ~PageFailed(scrape_page)

\* the positions of the document's img elements whose src attribute holds
\* the domain marker, and of those inside the reader container
MarkedSrcPositions(page) ==
    {k \in 1..Len(page.elems) :
        page.elems[k].attr # NoAttr /\ page.elems[k].attr \in MarkedUrls}
ReaderPositions(page) == {k \in 1..Len(page.elems) : page.elems[k].reader}

\* the URL of an element: its src, or its data-src when it has no src
UrlOf(e) == IF e.src \in {NoAttr, ""} THEN e.datasrc ELSE e.src

\* the elements of es at the positions of ks, in document order
RECURSIVE ElementsAt(_, _)
ElementsAt(es, ks) ==
    IF es = <<>> THEN <<>>
    ELSE LET front == ElementsAt(SubSeq(es, 1, Len(es) - 1), ks)
         IN  IF Len(es) \in ks THEN Append(front, es[Len(es)]) ELSE front

\* the primary selector matches nothing and the reader container holds M >= 1
\* img elements
FallsBackToReader ==
    /\ ScrapedLoadedPage
    /\ MarkedSrcPositions(scrape_page) = {}
    /\ ReaderPositions(scrape_page) # {}

\* C12 as stated: when the primary domain-marked selector matches zero
\* elements and the reader-container selector matches M >= 1, the returned
\* list is the URLs of those M elements, all M, in document order.  A reader
\* element whose URL lacks the domain marker (or that has no URL) refutes it:
\* the filter drops it.
C12_FallbackReturnsAllReaderUrls ==
    FallsBackToReader =>
        LET matched == ElementsAt(scrape_page.elems, ReaderPositions(scrape_page))
        IN  image_urls = [k \in 1..Len(matched) |-> UrlOf(matched[k])]

\* C12 amended: in that case the returned list is, in document order, the
\* URLs of those of the M reader-container elements whose URL contains the
\* domain marker: at most M, fewer when the filter drops some, none when it
\* drops all.
C12_FallbackReturnsMarkedReaderUrls ==
    FallsBackToReader =>
        LET kept == {k \in ReaderPositions(scrape_page) :
                        UrlOf(scrape_page.elems[k]) \in MarkedUrls}
            matched == ElementsAt(scrape_page.elems, kept)
        IN  image_urls = [k \in 1..Len(matched) |-> UrlOf(matched[k])]

\* C12 witness: the fallback matched two reader elements whose two
\* different URLs were both returned
C12_TwoReaderUrlsReturned ==
    /\ FallsBackToReader
    /\ Cardinality(ReaderPositions(scrape_page)) = 2
    /\ Len(image_urls) = 2 /\ image_urls[1] # image_urls[2]

(* ------------------------------- C13 ---------------------------------- *)
\* the download_image call for list position i fetches the i-th URL into
\* page_i, after exactly i - 1 earlier calls have returned, whatever they
\* returned; a page that was fetched holds the content of its own URL
OrdinalsFollowListOrder ==
    /\ (op = "chapter" /\ pc = "attempt") =>
           /\ i \in 1..Len(image_urls)
           /\ image_url = image_urls[i]
           /\ save_path = <<chapter_name, PageName(i)>>
           /\ Len(image_results) = i - 1
    /\ (op = "chapter" /\ pc = "pause") => Len(image_results) = i
    /\ (ChapterReturned /\ scraped) =>
           \A k \in 1..Len(image_results) :
               image_results[k] =>
                   FileAt(fs, <<chapter_name, PageName(k)>>) = File(Body(image_urls[k]))

\* in a chapter directory that held no file before the call, the page of
\* every image whose download_image call returned False is absent
FailedPagesAbsent ==
    (ChapterReturned /\ scraped /\ FilesIn(fs0, chapter_name) = {}) =>
        \A k \in 1..Len(image_results) :
            ~image_results[k] => ~FileAt(fs, <<chapter_name, PageName(k)>>).exists

\* C13: ordinal assignment is stable: the i-th extracted URL is written only
\* to page_{i:03d}.jpg whatever happened to earlier pages, every list
\* position is fetched by exactly one download_image call, in increasing
\* order, and a permanently failed page leaves its own ordinal absent
\* without shifting later pages.  The code breaks the absent part through
\* C4: a page whose last attempt failed while streaming keeps the partial
\* file under its ordinal.
C13_OrdinalsStableFailedPagesAbsent ==
    OrdinalsFollowListOrder /\ FailedPagesAbsent

(* ------------------------------- C14 ---------------------------------- *)
\* download_chapter is over: it returned, or an exception reached its caller
ChapterOver == pc = "idle" /\ op = "chapter"

\* C14: no exception crosses the download_chapter boundary: whatever fails
\* (session creation, directory creation, scraping, image fetching, session
\* teardown), short of an interruption signal, the call returns a boolean,
\* and the boolean is False unless the session was created, the directory
\* exists, the scrape returned and some image was downloaded.
C14_NoExceptionCrossesBoundary ==
    (ChapterOver /\ exc # "KeyboardInterrupt") =>
        /\ exc = NoException
        /\ result \in BOOLEAN
        /\ result = TRUE =>
               /\ create_outcome = "ok"
               /\ chapter_name \in dirs
               /\ scraped
               /\ TrueReturns >= 1

\* C14 witness: a call in which os.makedirs failed and then driver.quit
\* raised, and which returned False
C14_DirectoryAndTeardownFailed ==
    /\ ChapterReturned /\ result = FALSE
    /\ create_outcome = "ok" /\ chapter_name \notin dirs
    /\ quit_outcome = "raises"

(* ------------------------------- C15 ---------------------------------- *)
\* C15: when download_chapter is interrupted by a signal during session
\* acquisition, scraping or image downloading, quit_driver has run and every
\* browser session the call started has been quit by the time the
\* interruption reaches the caller.  The code breaks it: a signal delivered
\* inside create_driver after webdriver.Chrome has started the browser
\* arrives before self.driver is assigned, so quit_driver finds no session.
C15_InterruptedCallClosesSessions ==
    (ChapterOver /\ exc = "KeyboardInterrupt") =>
        /\ quit_runs = 1
        /\ driver = None
        /\ \A s \in StartedThisCall : sessions[s].quits >= 1

(* ------------------------------- C16 ---------------------------------- *)
\* C16: quit_driver is idempotent and never raises: a run that finds no
\* session in self.driver changes nothing; a run that finds one calls its
\* quit exactly once; either way no exception leaves it and self.driver is
\* None afterwards, also when quit raised, so that the next run finds no
\* session.
C16_QuitDriverIdempotent ==
    [][ quit_runs' = quit_runs + 1 =>
            /\ driver' = None
            /\ exc' = exc
            /\ IF driver = None
               THEN sessions' = sessions /\ quit_calls' = quit_calls
               ELSE /\ sessions' = [sessions EXCEPT ![driver].quits = @ + 1]
                    /\ quit_calls' = quit_calls + 1 ]_vars

\* C16 witness: two quit_driver calls in a row, the first on a session whose
\* quit raised, the second finding no session and quitting nothing
C16_SecondQuitAfterRaisingQuit ==
    /\ op = "quit_driver"
    /\ quit_log = <<[held |-> TRUE, outcome |-> "raises"], [held |-> FALSE, outcome |-> "ok"]>>
    /\ Len(sessions) = 1 /\ sessions[1].quits = 1
    /\ driver = None /\ exc = NoException

(* ------------------------------- C17 ---------------------------------- *)
\* C17: whenever download_image returns True the file at save_path exists
\* and holds exactly the chunks of the response body of image_url, in
\* order, whatever the failed attempts of the call (or anything before the
\* call) had written there.
C17_SuccessWritesWholeBodyOnly ==
    (ImageReturned /\ img_result) =>
        /\ FileAt(fs, save_path).exists
        /\ FileAt(fs, save_path).data = [j \in 1..ChunksPerBody |-> <<image_url, j>>]

\* C17 witness: a call that returned True at its third attempt, the two
\* attempts before having failed after they opened the file
C17_SucceededAfterPartialWrites ==
    ImageReturned /\ op = "image" /\ img_result /\ gets = 3 /\ partials = 2

(* ------------------------------- C18 ---------------------------------- *)
\* create_driver has been called and did not return a session
SessionCreationFailed == op = "chapter" /\ create_outcome \notin {"none", "ok"}

\* C18 as stated: the chapter directory is created before the session is
\* acquired: it exists when create_driver is about to be called, and it
\* exists when create_driver has failed.  The code calls create_driver
\* first, so a chapter directory that did not exist before the call does not
\* exist at either moment.
C18_DirectoryExistsBeforeSession ==
    /\ (op = "chapter" /\ pc = "create") => chapter_name \in dirs
    /\ SessionCreationFailed => chapter_name \in dirs

\* C18 amended: the session is acquired before the chapter directory is
\* created: os.makedirs runs only once create_driver has returned a session
\* that self.driver holds, the only directory a call creates is its chapter
\* directory, and a call whose session creation fails creates no directory.
C18_SessionBeforeDirectory ==
    /\ []((op = "chapter" /\ pc = "mkdir") => (create_outcome = "ok" /\ driver # None))
    /\ [][ dirs' # dirs =>
               /\ op = "chapter" /\ pc = "mkdir"
               /\ create_outcome = "ok" /\ driver # None
               /\ dirs' = dirs \cup {chapter_name} ]_vars

\* C18 witness: a call whose session creation failed has returned and its
\* chapter directory does not exist
C18_NoDirectoryAfterFailedCreation ==
    ChapterReturned /\ SessionCreationFailed /\ chapter_name \notin dirs

(* ------------------------------- C19 ---------------------------------- *)
\* the phase of download_chapter, as a number: Idle 0 (not running, or
\* create_driver running), SessionActive 1 (session held, page not requested
\* yet), Scraping 2, Downloading 3, SessionClosed 4 (the except and finally
\* clauses: the teardown and what follows it)
Phase ==
    CASE pc \in {"idle", "create"} -> 0
      [] pc = "mkdir" -> 1
      [] pc \in {"scrape", "check_images"} -> 2
      [] pc \in {"attempt", "pause"} -> 3
      [] OTHER -> 4

\* the session held in self.driver is open
SessionOpen == driver # None /\ sessions[driver].quits = 0

\* C19: download_chapter moves through Idle, SessionActive, Scraping,
\* Downloading, SessionClosed in that order, one phase at a time or, on a
\* failure, directly to SessionClosed; navigation and extraction happen only
\* with an open session; no image is fetched before get_chapter_images has
\* returned; and the session is released only when every URL of the list
\* has had its download_image call (unless a failure ended the call), with
\* no navigation and no fetch after the release.
C19_PhasesInOrder ==
    /\ [](op = "chapter" =>
             /\ pc \in {"scrape", "check_images"} => SessionOpen
             /\ navigations > 0 => create_outcome = "ok"
             /\ (pc = "attempt" \/ chapter_gets > 0) => (scraped /\ image_urls # <<>>)
             /\ (quit_runs > 0 /\ exc = NoException /\ scraped) =>
                    Len(image_results) = Len(image_urls)
             /\ quit_runs > 0 => pc \in {"chapter_sleep", "idle"})
    /\ [][ (op = "chapter" /\ op' = "chapter" /\ calls' = calls) =>
               /\ \/ Phase' \in {Phase, Phase + 1, 4}
                  \/ Phase = 4 /\ pc' = "idle"
               /\ quit_runs > 0 =>
                      (chapter_gets' = chapter_gets /\ navigations' = navigations) ]_vars

\* C19 witness: a call that went through every phase, fetched two images
\* with a failed attempt among the fetches, and released its session
C19_AllPhasesPassed ==
    /\ ChapterReturned /\ create_outcome = "ok" /\ navigations = 1
    /\ Len(image_urls) = 2 /\ Len(image_results) = 2 /\ chapter_gets > 2
    /\ quit_calls = 1 /\ driver = None

(* ------------------------------- C20 ---------------------------------- *)
\* C20: session creation is not retried: a download_chapter call never
\* starts a second browser, a call that returns has called webdriver.Chrome
\* exactly once, and when create_driver failed the call navigates to no
\* page, fetches no image and returns False.
C20_SessionCreationNotRetried ==
    /\ op = "chapter" => create_attempts <= 1
    /\ ChapterReturned => create_attempts = 1
    /\ (SessionCreationFailed /\ exc # "KeyboardInterrupt") =>
           /\ create_attempts = 1
           /\ navigations = 0 /\ ~scraped
           /\ chapter_gets = 0 /\ image_results = <<>>
           /\ ChapterReturned => result = FALSE

\* C20 witness: a call whose create_driver raised after the browser had
\* started has returned False
C20_FailedCreationReturnedFalse ==
    /\ ChapterReturned /\ create_outcome = "timeout_raises"
    /\ create_attempts = 1 /\ result = FALSE

(* ------------------------------- C21 ---------------------------------- *)
\* the positions of the img elements that have a data-src attribute
DataSrcPositions(page) ==
    {k \in 1..Len(page.elems) : page.elems[k].datasrc # NoAttr}

\* the positions matched by the first of the three strategies (domain-marked
\* src, reader container, data-src) that matches at least one element
FirstMatchingStrategy(page) ==
    IF MarkedSrcPositions(page) # {} THEN MarkedSrcPositions(page)
    ELSE IF ReaderPositions(page) # {} THEN ReaderPositions(page)
    ELSE DataSrcPositions(page)

\* C21: the three selector strategies are applied in the order domain-marked
\* src, reader container, data-src; a strategy is queried only when every
\* strategy before it matched nothing; and the returned URLs come from the
\* elements of the first strategy with a match and from no other element.
C21_FirstMatchingStrategyOnly ==
    ScrapedLoadedPage =>
        /\ queried =
               IF MarkedSrcPositions(scrape_page) # {} THEN <<"marked_src">>
               ELSE IF ReaderPositions(scrape_page) # {} THEN <<"marked_src", "reader">>
               ELSE <<"marked_src", "reader", "data_src">>
        /\ LET kept == {k \in FirstMatchingStrategy(scrape_page) :
                           UrlOf(scrape_page.elems[k]) \in MarkedUrls}
               matched == ElementsAt(scrape_page.elems, kept)
           IN  image_urls = [k \in 1..Len(matched) |-> UrlOf(matched[k])]

\* C21 witness: a page with one element matched by the domain-marked
\* selector and another one, in the reader container, that only the second
\* selector would match and whose URL holds the marker; one URL is returned
C21_ReaderElementNotMerged ==
    /\ ScrapedLoadedPage
    /\ Cardinality(MarkedSrcPositions(scrape_page)) = 1
    /\ \E k \in ReaderPositions(scrape_page) \ MarkedSrcPositions(scrape_page) :
           UrlOf(scrape_page.elems[k]) \in MarkedUrls
    /\ queried = <<"marked_src">>
    /\ Len(image_urls) = 1

(* ------------------------------- C22 ---------------------------------- *)
\* the effective URL of every matched element, in document order: src, and
\* data-src only for an element whose src is absent or empty
EffectiveUrls(page) ==
    LET matched == ElementsAt(page.elems, FirstMatchingStrategy(page))
    IN  [k \in 1..Len(matched) |->
            IF matched[k].src = NoAttr \/ matched[k].src = ""
            THEN matched[k].datasrc
            ELSE matched[k].src]

HoldsMarker(u) == u \in MarkedUrls

\* C22: the returned list is exactly the subsequence of the matched
\* elements' effective URLs that contain the marker 'mangapark', in document
\* order and with repeated URLs kept; the effective URL is src, and data-src
\* only when src is absent or empty, so an element with an unmarked src is
\* dropped whatever its data-src.
C22_MarkedEffectiveUrlsInOrder ==
    ScrapedLoadedPage =>
        /\ image_urls = SelectSeq(EffectiveUrls(scrape_page), HoldsMarker)
        /\ Len(image_urls) =
               Cardinality({k \in 1..Len(EffectiveUrls(scrape_page)) :
                               HoldsMarker(EffectiveUrls(scrape_page)[k])})

\* C22 witness: of two matched elements the one with an unmarked src and a
\* marked data-src was dropped and the one without src was returned with
\* its data-src
C22_UnmarkedSrcDroppedDataSrcUsed ==
    /\ ScrapedLoadedPage
    /\ Len(EffectiveUrls(scrape_page)) = 2
    /\ \E k \in FirstMatchingStrategy(scrape_page) :
           /\ scrape_page.elems[k].src \in UnmarkedUrls
           /\ scrape_page.elems[k].datasrc \in MarkedUrls
    /\ \E k \in FirstMatchingStrategy(scrape_page) :
           /\ scrape_page.elems[k].src = NoAttr
           /\ image_urls = <<scrape_page.elems[k].datasrc>>

(* ------------------------------- C23 ---------------------------------- *)
\* n pauses of 1 time unit, none of them after quit_driver
DownloadPauses(n) == [j \in 1..n |-> [delay |-> 1, quits |-> 0]]

\* C23: download_chapter pauses 1 time unit after the fetch of every image,
\* whether it succeeded or failed and also after the last one, and on every
\* exit path (success, no images, session creation failure, exception) it
\* runs quit_driver first and then pauses 5 time units before it returns:
\* the pause of 5 is the last thing the call does, and the only one.
C23_PausesAfterFetchesAndRelease ==
    /\ (op = "chapter" /\ pc \in {"attempt", "pause"}) => pauses = DownloadPauses(i - 1)
    /\ (op = "chapter" /\ pc # "idle") => \A j \in 1..Len(pauses) : pauses[j].delay = 1
    /\ ChapterReturned =>
           pauses = DownloadPauses(Len(image_results)) \o <<[delay |-> 5, quits |-> 1]>>
    /\ ChapterOver =>
           /\ pauses # <<>>
           /\ pauses[Len(pauses)] = [delay |-> 5, quits |-> 1]
           /\ \A j \in 1..(Len(pauses) - 1) : pauses[j].delay = 1

\* C23 witness: a returned call of two images, the second of which failed
\* for good, with a pause of 1 after each and the pause of 5 at the end
C23_PauseAfterFailedLastImage ==
    /\ ChapterReturned /\ image_results = <<TRUE, FALSE>>
    /\ Len(pauses) = 3 /\ pauses[2].delay = 1 /\ pauses[3].delay = 5

C25_NoAttemptWithoutRetries ==
    (op = "image" /\ retries <= 0) =>
        /\ gets = 0
        /\ backoffs = <<>>
        /\ \A p \in DOMAIN fs \cup DOMAIN fs0 : FileAt(fs, p) = FileAt(fs0, p)
        /\ exc = NoException
        /\ pc = "idle" => (img_result = FALSE /\ result = FALSE)

\* C25 witness: a call with a negative retries has returned False and the
\* file an earlier download had left at the destination is still there
C25_NegativeRetriesReturnedFalse ==
    /\ op = "image" /\ pc = "idle" /\ retries < 0 /\ result = FALSE
    /\ FileAt(fs, save_path).exists

(* ------------------------------- C26 ---------------------------------- *)
\* the steps one list position can take: every attempt, the end of the
\* loop, the return and the pause
StepsPerImage == DefaultRetries + 3

\* an upper bound of the steps the running download_chapter call still has
\* to take
StepsLeft ==
    CASE pc = "idle" -> 0
      [] pc = "chapter_sleep" -> 1
      [] pc = "finally" -> 2
      [] pc = "except" -> 3
      [] pc = "pause" -> 3 + (Len(image_urls) - i) * StepsPerImage + 1
      [] pc = "attempt" ->
             3 + (Len(image_urls) - i) * StepsPerImage + 2 + (retries - attempt)
      [] pc = "check_images" -> 4 + Len(image_urls) * StepsPerImage
      [] pc = "scrape" -> 5 + MaxImages * StepsPerImage
      [] pc = "mkdir" -> 6 + MaxImages * StepsPerImage
      [] OTHER -> 7 + MaxImages * StepsPerImage

\* C26: every download_chapter invocation terminates when each external
\* call returns or raises: a running call always comes to its end with
\* quit_driver run once, and every step of it lowers a bound on the steps
\* left (the list is traversed once, every image has at most retries
\* attempts, no step goes back to an earlier phase).
C26_ChapterCallTerminates ==
    /\ (op = "chapter" /\ pc # "idle") ~> (op = "chapter" /\ pc = "idle" /\ quit_runs = 1)
    /\ [](op = "chapter" => StepsLeft >= 0)
    /\ [][ (op = "chapter" /\ pc # "idle") => StepsLeft' < StepsLeft ]_vars

\* C26 witness: the longest call has returned: two images, each fetched with
\* all its attempts, all of them failed
C26_LongestCallReturned ==
    /\ ChapterReturned /\ Len(image_urls) = MaxImages
    /\ chapter_gets = MaxImages * DefaultRetries
    /\ TrueReturns = 0

====
